---- MODULE Spec2Model ----
(***************************************************************************)
(* Type guards and event-name extraction of gooddata-typings.              *)
(*                                                                         *)
(* Every operation of the library is a function of one JavaScript value.   *)
(* A JavaScript value is a record  [t, b, n, s, o] : t is the type tag,    *)
(* b / n / s the payload of a boolean / number / string and o the own      *)
(* enumerable properties of an object or array (a function from property   *)
(* names to values); n of an array is its length, which is the highest     *)
(* index plus one and not the number of its elements (an array may have    *)
(* holes).  An abrupt completion (a thrown TypeError) is the value whose   *)
(* tag is "TypeError".                                                     *)
(***************************************************************************)
EXTENDS Integers, FiniteSets, Sequences, TLC

VARIABLES arg, op, result

vars == <<arg, op, result>>

(***************************************************************************)
(* Bounds                                                                  *)
(***************************************************************************)
\* Largest number of own properties of a generated flat (marker) object.
MaxProps == 2

\* Largest number of predicates called one after the other on one value.
MaxCalls == 2

(***************************************************************************)
(* JavaScript values                                                       *)
(***************************************************************************)
NoProps == [k \in {} |-> 0]

Undefined == [t |-> "undefined", b |-> FALSE, n |-> 0, s |-> "", o |-> NoProps]

Null == [t |-> "null", b |-> FALSE, n |-> 0, s |-> "", o |-> NoProps]

Bool(x) == [t |-> "boolean", b |-> x, n |-> 0, s |-> "", o |-> NoProps]

Num(x) == [t |-> "number", b |-> FALSE, n |-> x, s |-> "", o |-> NoProps]

Str(x) == [t |-> "string", b |-> FALSE, n |-> 0, s |-> x, o |-> NoProps]

Obj(props) == [t |-> "object", b |-> FALSE, n |-> 0, s |-> "", o |-> props]

\* An array of the given length with the given own properties (its elements,
\* under their indices, and its named properties).
Arr(length, props) ==
    [t |-> "array", b |-> FALSE, n |-> length, s |-> "", o |-> props]

TypeError == [t |-> "TypeError", b |-> FALSE, n |-> 0, s |-> "", o |-> NoProps]

EmptyObject == Obj(NoProps)

\* No call has been made yet.
NoResult == [t |-> "none", b |-> FALSE, n |-> 0, s |-> "", o |-> NoProps]

IsThrow(v) == v.t = "TypeError"

IsNullish(v) == v.t \in {"undefined", "null"}

\* x.k : reading a property of null or undefined throws; a primitive has none
\* of the properties the library reads; an object yields its own property.
Get(x, k) ==
    IF IsThrow(x) THEN x
    ELSE IF IsNullish(x) THEN TypeError
    ELSE IF x.t \in {"object", "array"} /\ k \in DOMAIN x.o THEN x.o[k]
    ELSE Undefined

\* ToBoolean, as applied by  ||  and  !!
ToBoolean(v) ==
    CASE v.t = "undefined" -> FALSE
      [] v.t = "null"      -> FALSE
      [] v.t = "boolean"   -> v.b
      [] v.t = "number"    -> v.n # 0
      [] v.t = "string"    -> v.s # ""
      [] OTHER             -> TRUE

\* a || b
OrElse(a, b) == IF ToBoolean(a) THEN a ELSE b

\* The default of a destructuring pattern  ( = d ) : used for undefined only.
Default(v, d) == IF v.t = "undefined" THEN d ELSE v

\* a === b, with b a string literal; an abrupt completion of a propagates.
StrictEquals(a, b) == IF IsThrow(a) THEN a ELSE Bool(a = b)

\* !!a
NotNot(a) == IF IsThrow(a) THEN a ELSE Bool(ToBoolean(a))

\* a !== undefined
IsDefined(a) == IF IsThrow(a) THEN a ELSE Bool(a.t # "undefined")

(***************************************************************************)
(* embedding/common.ts                                                     *)
(***************************************************************************)
GdcProductName ==
    [ANALYTICAL_DESIGNER |-> "analyticalDesigner", KPI_DASHBOARDS |-> "dashboards"]

GdcEventType == [AppCommandFailed |-> "appCommandFailed"]

\* A wrong code: RuntimeError repeats the code of InvalidState.
GdcErrorTypeRepeatedCode ==
    [InvalidCommand  |-> "error:invalidCommand",
     InvalidArgument |-> "error:invalidArgument",
     InvalidState    |-> "error:invalidState",
     RuntimeError    |-> "error:invalidState"]

GdcErrorType ==
    [InvalidCommand  |-> "error:invalidCommand",
     InvalidArgument |-> "error:invalidArgument",
     InvalidState    |-> "error:invalidState",
     RuntimeError    |-> "error:runtime"]

\* A wrong extraction: the argument is destructured without  || {} .
getEventTypeNoFallback(obj) ==
    LET gdc   == Default(Get(obj, "gdc"), EmptyObject)
        event == Default(Get(gdc, "event"), EmptyObject)
    IN  Default(Get(event, "name"), Str(""))

\* A wrong extraction: the name is read at the product level (gdc.name).
getEventTypeWrongLevel(obj) ==
    LET top == OrElse(obj, EmptyObject)
        gdc == Default(Get(top, "gdc"), EmptyObject)
    IN  Default(Get(gdc, "name"), Str(""))

\* A wrong extraction: the defaults are used for null as for undefined.
getEventTypeNullDefaults(obj) ==
    LET top   == OrElse(obj, EmptyObject)
        gdc   == OrElse(Default(Get(top, "gdc"), EmptyObject), EmptyObject)
        event == OrElse(Default(Get(gdc, "event"), EmptyObject), EmptyObject)
    IN  Default(Get(event, "name"), Str(""))

\* const { gdc: { event: { name = '' } = {} } = {} } = obj || {}; return name;
getEventType(obj) ==
    LET top   == OrElse(obj, EmptyObject)
        gdc   == Default(Get(top, "gdc"), EmptyObject)
        event == Default(Get(gdc, "event"), EmptyObject)
    IN  Default(Get(event, "name"), Str(""))

isCommandFailedData(obj) ==
    StrictEquals(getEventType(obj), Str(GdcEventType.AppCommandFailed))

(***************************************************************************)
(* embedding/ad.ts : EmbeddedAnalyticalDesigner                            *)
(***************************************************************************)
GdcAdCommandType ==
    [DrillableItems |-> "drillableItems",
     OpenInsight |-> "openInsight",
     Save |-> "saveInsight",
     SaveAs |-> "saveAsInsight",
     Export |-> "exportInsight",
     Clear |-> "clear",
     Undo |-> "undo",
     Redo |-> "redo"]

\* A wrong enum: RedoFinished repeats the literal of UndoFinished.
GdcAdEventTypeRepeatedLiteral ==
    [ListeningForDrillableItems |-> "listeningForDrillableItems",
     NewInsightInitialized |-> "newInsightInitialized",
     InsightOpened |-> "insightOpened",
     InsightSaved |-> "visualizationSaved",
     UndoFinished |-> "undoFinished",
     RedoFinished |-> "undoFinished",
     ExportFinished |-> "exportInsightFinished",
     Drill |-> "drill"]

GdcAdEventType ==
    [ListeningForDrillableItems |-> "listeningForDrillableItems",
     NewInsightInitialized |-> "newInsightInitialized",
     InsightOpened |-> "insightOpened",
     InsightSaved |-> "visualizationSaved",
     UndoFinished |-> "undoFinished",
     RedoFinished |-> "redoFinished",
     ExportFinished |-> "exportInsightFinished",
     Drill |-> "drill"]

AD_isAdCommandFailedData(obj) == isCommandFailedData(obj)

AD_isDrillableItemsCommandData(obj) ==
    StrictEquals(getEventType(obj), Str(GdcAdCommandType.DrillableItems))

AD_isOpenInsightCommandData(obj) ==
    StrictEquals(getEventType(obj), Str(GdcAdCommandType.OpenInsight))

AD_isClearCommandData(obj) ==
    StrictEquals(getEventType(obj), Str(GdcAdCommandType.Clear))

AD_isSaveInsightCommandData(obj) ==
    StrictEquals(getEventType(obj), Str(GdcAdCommandType.Save))

AD_isSaveAsInsightCommandData(obj) ==
    StrictEquals(getEventType(obj), Str(GdcAdCommandType.SaveAs))

AD_isExportInsightCommandData(obj) ==
    StrictEquals(getEventType(obj), Str(GdcAdCommandType.Export))

\* A wrong guard: the product of the envelope is tested with the name.
AD_isUndoCommandDataOfProduct(obj) ==
    IF IsThrow(getEventType(obj)) THEN getEventType(obj)
    ELSE Bool(/\ getEventType(obj) = Str(GdcAdCommandType.Undo)
              /\ Get(Get(obj, "gdc"), "product")
                     = Str(GdcProductName.ANALYTICAL_DESIGNER))

AD_isUndoCommandData(obj) ==
    StrictEquals(getEventType(obj), Str(GdcAdCommandType.Undo))

AD_isRedoCommandData(obj) ==
    StrictEquals(getEventType(obj), Str(GdcAdCommandType.Redo))

AD_isNewInsightInitializedData(obj) ==
    StrictEquals(getEventType(obj), Str(GdcAdEventType.NewInsightInitialized))

AD_isInsightOpenedData(obj) ==
    StrictEquals(getEventType(obj), Str(GdcAdEventType.InsightOpened))

\* A wrong literal: the name of the enum member instead of its wire value.
AD_isInsightSavedDataByMemberName(obj) ==
    StrictEquals(getEventType(obj), Str("insightSaved"))

AD_isInsightSavedData(obj) ==
    StrictEquals(getEventType(obj), Str(GdcAdEventType.InsightSaved))

AD_isExportFinishedData(obj) ==
    StrictEquals(getEventType(obj), Str(GdcAdEventType.ExportFinished))

AD_isUndoFinishedData(obj) ==
    StrictEquals(getEventType(obj), Str(GdcAdEventType.UndoFinished))

AD_isRedoFinishedData(obj) ==
    StrictEquals(getEventType(obj), Str(GdcAdEventType.RedoFinished))

(***************************************************************************)
(* embedding/common.ts, from line 184 : EmbeddedKpiDashboard               *)
(***************************************************************************)
GdcKdCommandType ==
    [Save |-> "saveDashboard",
     CancelEdit |-> "cancelEdit",
     Delete |-> "deleteDashboard",
     SwitchToEdit |-> "switchToEdit",
     DrillableItems |-> "drillableItems",
     SetSize |-> "setSize",
     AddWidget |-> "addWidget",
     AddFilter |-> "addFilter",
     ExportToPdf |-> "exportToPdf"]

GdcKdEventType ==
    [ListeningForDrillableItems |-> "listeningForDrillableItems",
     LoadingStarted |-> "loadingStarted",
     NoPermissions |-> "noPermissions",
     Resized |-> "resized",
     DashboardCreated |-> "dashboardCreated",
     DashboardLoaded |-> "loaded",
     DashboardUpdated |-> "dashboardUpdated",
     DashboardSaved |-> "dashboardSaved",
     DashboardDeleted |-> "dashboardDeleted",
     DashboardCreationCanceled |-> "dashboardCreationCanceled",
     SwitchedToEdit |-> "switchedToEdit",
     SwitchedToView |-> "switchedToView",
     Platform |-> "platform",
     WidgetAdded |-> "widgetAdded",
     FilterAdded |-> "filterAdded",
     ExportedToPdf |-> "exportedToPdf",
     Drill |-> "drill"]

\* A wrong enum: the save command of the other product.
KD_isSaveDashboardCommandDataAdSave(obj) ==
    StrictEquals(getEventType(obj), Str(GdcAdCommandType.Save))

KD_isSaveDashboardCommandData(obj) ==
    StrictEquals(getEventType(obj), Str(GdcKdCommandType.Save))

KD_isCancelEditCommandData(obj) ==
    StrictEquals(getEventType(obj), Str(GdcKdCommandType.CancelEdit))

KD_isSwitchToEditCommandData(obj) ==
    StrictEquals(getEventType(obj), Str(GdcKdCommandType.SwitchToEdit))

KD_isDrillableItemsCommandData(obj) ==
    StrictEquals(getEventType(obj), Str(GdcKdCommandType.DrillableItems))

KD_isSetSizeCommandData(obj) ==
    StrictEquals(getEventType(obj), Str(GdcKdCommandType.SetSize))

KD_isAddWidgetCommandData(obj) ==
    StrictEquals(getEventType(obj), Str(GdcKdCommandType.AddWidget))

KD_isAddFilterCommandData(obj) ==
    StrictEquals(getEventType(obj), Str(GdcKdCommandType.AddFilter))

KD_isExportToPdfCommandData(obj) ==
    StrictEquals(getEventType(obj), Str(GdcKdCommandType.ExportToPdf))

\* return obj.identifier;
KD_isIdentifierInsight(obj) == Get(obj, "identifier")

\* return obj.uri;
KD_isUriInsight(obj) == Get(obj, "uri")

(***************************************************************************)
(* Messages handed to the embedding guards                                 *)
(***************************************************************************)
\* The sets of property maps S, each optionally extended by property k with
\* a value of V.
OptField(S, k, V) == S \cup {(k :> v) @@ p : p \in S, v \in V}

Range(f) == {f[k] : k \in DOMAIN f}

\* Every literal of the wire vocabulary.
WireNames ==
    Range(GdcEventType) \cup Range(GdcAdCommandType) \cup Range(GdcAdEventType)
        \cup Range(GdcKdCommandType) \cup Range(GdcKdEventType)

Primitives ==
    {Undefined, Null, Bool(FALSE), Bool(TRUE), Num(0), Num(1), Str(""), Str("name")}

SomeObject == Obj("title" :> Str("My Insight"))

NameVals ==
    {Undefined, Null, Bool(FALSE), Bool(TRUE), Num(0), Num(1), SomeObject}
        \cup {Str(n) : n \in WireNames \cup {"", "unknown"}}

EventProps ==
    OptField(OptField(OptField({NoProps}, "name", NameVals),
                      "data", {SomeObject}),
             "contextId", {Str("ctx")})

EventVals == Primitives \cup {Obj(p) : p \in EventProps}

GdcProps ==
    OptField(OptField({NoProps}, "product",
                      {Str(n) : n \in Range(GdcProductName) \cup {"other"}}),
             "event", EventVals)

GdcVals == Primitives \cup {Obj(p) : p \in GdcProps}

MessageProps == OptField(OptField({NoProps}, "gdc", GdcVals), "extra", {Num(1)})

Messages ==
    Primitives \cup {Arr(0, NoProps), Arr(1, "0" :> Str("name"))}
        \cup {Obj(p) : p \in MessageProps}

(***************************************************************************)
(* Calls of the embedding operations on a received message                 *)
(***************************************************************************)
AdGuards ==
    {"AD_isAdCommandFailedData", "AD_isDrillableItemsCommandData",
     "AD_isOpenInsightCommandData", "AD_isClearCommandData",
     "AD_isSaveInsightCommandData", "AD_isSaveAsInsightCommandData",
     "AD_isExportInsightCommandData", "AD_isUndoCommandData",
     "AD_isRedoCommandData", "AD_isNewInsightInitializedData",
     "AD_isInsightOpenedData", "AD_isInsightSavedData",
     "AD_isExportFinishedData", "AD_isUndoFinishedData",
     "AD_isRedoFinishedData"}

KdGuards ==
    {"KD_isSaveDashboardCommandData", "KD_isCancelEditCommandData",
     "KD_isSwitchToEditCommandData", "KD_isDrillableItemsCommandData",
     "KD_isSetSizeCommandData", "KD_isAddWidgetCommandData",
     "KD_isAddFilterCommandData", "KD_isExportToPdfCommandData"}

AdApply(g, x) ==
    CASE g = "AD_isAdCommandFailedData" -> AD_isAdCommandFailedData(x)
      [] g = "AD_isDrillableItemsCommandData" -> AD_isDrillableItemsCommandData(x)
      [] g = "AD_isOpenInsightCommandData" -> AD_isOpenInsightCommandData(x)
      [] g = "AD_isClearCommandData" -> AD_isClearCommandData(x)
      [] g = "AD_isSaveInsightCommandData" -> AD_isSaveInsightCommandData(x)
      [] g = "AD_isSaveAsInsightCommandData" -> AD_isSaveAsInsightCommandData(x)
      [] g = "AD_isExportInsightCommandData" -> AD_isExportInsightCommandData(x)
      [] g = "AD_isUndoCommandData" -> AD_isUndoCommandData(x)
      [] g = "AD_isRedoCommandData" -> AD_isRedoCommandData(x)
      [] g = "AD_isNewInsightInitializedData" -> AD_isNewInsightInitializedData(x)
      [] g = "AD_isInsightOpenedData" -> AD_isInsightOpenedData(x)
      [] g = "AD_isInsightSavedData" -> AD_isInsightSavedData(x)
      [] g = "AD_isExportFinishedData" -> AD_isExportFinishedData(x)
      [] g = "AD_isUndoFinishedData" -> AD_isUndoFinishedData(x)
      [] g = "AD_isRedoFinishedData" -> AD_isRedoFinishedData(x)

KdApply(g, x) ==
    CASE g = "KD_isSaveDashboardCommandData" -> KD_isSaveDashboardCommandData(x)
      [] g = "KD_isCancelEditCommandData" -> KD_isCancelEditCommandData(x)
      [] g = "KD_isSwitchToEditCommandData" -> KD_isSwitchToEditCommandData(x)
      [] g = "KD_isDrillableItemsCommandData" -> KD_isDrillableItemsCommandData(x)
      [] g = "KD_isSetSizeCommandData" -> KD_isSetSizeCommandData(x)
      [] g = "KD_isAddWidgetCommandData" -> KD_isAddWidgetCommandData(x)
      [] g = "KD_isAddFilterCommandData" -> KD_isAddFilterCommandData(x)
      [] g = "KD_isExportToPdfCommandData" -> KD_isExportToPdfCommandData(x)

InitEmbed == arg \in Messages /\ op = "none" /\ result = NoResult

CallGetEventType ==
    /\ op = "none"
    /\ op' = "getEventType"
    /\ result' = getEventType(arg)
    /\ UNCHANGED arg

CallIsCommandFailedData ==
    /\ op = "none"
    /\ op' = "isCommandFailedData"
    /\ result' = isCommandFailedData(arg)
    /\ UNCHANGED arg

CallAd(g) ==
    /\ op = "none"
    /\ op' = g
    /\ result' = AdApply(g, arg)
    /\ UNCHANGED arg

CallKd(g) ==
    /\ op = "none"
    /\ op' = g
    /\ result' = KdApply(g, arg)
    /\ UNCHANGED arg

NextEmbed ==
    \/ CallGetEventType
    \/ CallIsCommandFailedData
    \/ \E g \in AdGuards : CallAd(g)
    \/ \E g \in KdGuards : CallKd(g)

SpecEmbed == InitEmbed /\ [][NextEmbed]_vars

(***************************************************************************)
(* VisualizationObject.ts                                                  *)
(***************************************************************************)
\* value.length of an array or a string.
Length(value) == IF value.t = "string" THEN Len(value.s) ELSE value.n

\* A wrong emptiness test: only the own properties are counted, so that null
\* and undefined, which have none to count, are not reported empty.
isEmptyOwnKeysOnly(value) ==
    CASE value.t = "string" -> Length(value) = 0
      [] value.t = "array"  -> Length(value) = 0
      [] value.t = "object" -> DOMAIN value.o = {}
      [] OTHER              -> IsNullish(value) = FALSE

\* lodash isEmpty: null and undefined are empty, a string or an array is
\* empty when its length is 0 (whatever named properties the array has), an
\* object when it has no own enumerable property; a number or a boolean has
\* none and is empty.
isEmpty(value) ==
    CASE IsNullish(value)   -> TRUE
      [] value.t = "string" -> Length(value) = 0
      [] value.t = "array"  -> Length(value) = 0
      [] value.t = "object" -> DOMAIN value.o = {}
      [] OTHER              -> TRUE

\* a || b on two comparison results
Or(a, b) == IF IsThrow(a) THEN a ELSE IF a.b THEN a ELSE b

\* A wrong test: the sibling variant takes precedence, a bucket item that
\* carries visualizationAttribute is never a measure.
VO_isMeasureUnlessAttribute(bucketItem) ==
    IF isEmpty(bucketItem) THEN Bool(FALSE)
    ELSE IF Get(bucketItem, "visualizationAttribute").t # "undefined"
         THEN Bool(FALSE)
    ELSE IsDefined(Get(bucketItem, "measure"))

VO_isMeasure(bucketItem) ==
    IF isEmpty(bucketItem) THEN Bool(FALSE)
    ELSE IsDefined(Get(bucketItem, "measure"))

VO_isVisualizationAttribute(bucketItem) ==
    IF isEmpty(bucketItem) THEN Bool(FALSE)
    ELSE IsDefined(Get(bucketItem, "visualizationAttribute"))

VO_isMeasureDefinition(definition) ==
    IF isEmpty(definition) THEN Bool(FALSE)
    ELSE IsDefined(Get(definition, "measureDefinition"))

VO_isArithmeticMeasureDefinition(definition) ==
    IF isEmpty(definition) THEN Bool(FALSE)
    ELSE IsDefined(Get(definition, "arithmeticMeasure"))

\* A wrong marker: the field name of the AFM definition (popMeasure).
VO_isPopMeasureDefinitionAfmMarker(definition) ==
    IF isEmpty(definition) THEN Bool(FALSE)
    ELSE IsDefined(Get(definition, "popMeasure"))

VO_isPopMeasureDefinition(definition) ==
    IF isEmpty(definition) THEN Bool(FALSE)
    ELSE IsDefined(Get(definition, "popMeasureDefinition"))

VO_isPreviousPeriodMeasureDefinition(definition) ==
    IF isEmpty(definition) THEN Bool(FALSE)
    ELSE IsDefined(Get(definition, "previousPeriodMeasure"))

\* A wrong disjunction: the positive variant is left out.
VO_isAttributeFilterNegativeOnly(filter) ==
    IF isEmpty(filter) THEN Bool(FALSE)
    ELSE IsDefined(Get(filter, "negativeAttributeFilter"))

VO_isAttributeFilter(filter) ==
    IF isEmpty(filter) THEN Bool(FALSE)
    ELSE Or(IsDefined(Get(filter, "positiveAttributeFilter")),
            IsDefined(Get(filter, "negativeAttributeFilter")))

\* A wrong disjunction: the relative variant is left out.
VO_isDateFilterAbsoluteOnly(filter) ==
    IF isEmpty(filter) THEN Bool(FALSE)
    ELSE IsDefined(Get(filter, "absoluteDateFilter"))

VO_isDateFilter(filter) ==
    IF isEmpty(filter) THEN Bool(FALSE)
    ELSE Or(IsDefined(Get(filter, "absoluteDateFilter")),
            IsDefined(Get(filter, "relativeDateFilter")))

VO_isPositiveAttributeFilter(filter) ==
    IF isEmpty(filter) THEN Bool(FALSE)
    ELSE IsDefined(Get(filter, "positiveAttributeFilter"))

\* A wrong test of the marker: its truthiness instead of  !== undefined.
VO_isMeasureValueFilterTruthy(filter) ==
    IF isEmpty(filter) THEN Bool(FALSE)
    ELSE NotNot(Get(filter, "measureValueFilter"))

VO_isMeasureValueFilter(filter) ==
    IF isEmpty(filter) THEN Bool(FALSE)
    ELSE IsDefined(Get(filter, "measureValueFilter"))

VO_isAbsoluteDateFilter(filter) ==
    IF isEmpty(filter) THEN Bool(FALSE)
    ELSE IsDefined(Get(filter, "absoluteDateFilter"))

\* A wrong test of the marker: its truthiness instead of  !== undefined.
VO_isRelativeDateFilterTruthy(filter) ==
    IF isEmpty(filter) THEN Bool(FALSE)
    ELSE NotNot(Get(filter, "relativeDateFilter"))

VO_isRelativeDateFilter(filter) ==
    IF isEmpty(filter) THEN Bool(FALSE)
    ELSE IsDefined(Get(filter, "relativeDateFilter"))

\* A wrong marker: the field is named attribute.
VO_isAttributeShortMarker(bucketItem) ==
    IF isEmpty(bucketItem) THEN Bool(FALSE)
    ELSE IsDefined(Get(bucketItem, "attribute"))

VO_isAttribute(bucketItem) ==
    IF isEmpty(bucketItem) THEN Bool(FALSE)
    ELSE IsDefined(Get(bucketItem, "visualizationAttribute"))

VO_isLocalIdentifierQualifier(objectQualifier) ==
    IF isEmpty(objectQualifier) THEN Bool(FALSE)
    ELSE IsDefined(Get(objectQualifier, "localIdentifier"))

VO_isComparisonCondition(condition) ==
    IF isEmpty(condition) THEN Bool(FALSE)
    ELSE IsDefined(Get(condition, "comparison"))

\* A wrong marker: the field of the sibling condition (comparison).
VO_isRangeConditionComparisonMarker(condition) ==
    IF isEmpty(condition) THEN Bool(FALSE)
    ELSE IsDefined(Get(condition, "comparison"))

VO_isRangeCondition(condition) ==
    IF isEmpty(condition) THEN Bool(FALSE)
    ELSE IsDefined(Get(condition, "range"))

(***************************************************************************)
(* index.ts : AFM                                                          *)
(***************************************************************************)
AFM_isObjectUriQualifier(qualifier) == NotNot(Get(qualifier, "uri"))

AFM_isSimpleMeasureDefinition(definition) == NotNot(Get(definition, "measure"))

\* A wrong marker: the field of the sibling definition (measure).
AFM_isPopMeasureDefinitionSimpleMarker(definition) ==
    NotNot(Get(definition, "measure"))

AFM_isPopMeasureDefinition(definition) == NotNot(Get(definition, "popMeasure"))

AFM_isAttributeSortItem(sortItem) == NotNot(Get(sortItem, "attributeSortItem"))

AFM_isMeasureSortItem(sortItem) == NotNot(Get(sortItem, "measureSortItem"))

AFM_isMeasureLocatorItem(locator) == NotNot(Get(locator, "measureLocatorItem"))

\* A wrong test of the marker:  !== undefined  instead of its truthiness.
AFM_isPositiveAttributeFilterDefined(filter) ==
    IsDefined(Get(filter, "positiveAttributeFilter"))

AFM_isPositiveAttributeFilter(filter) ==
    NotNot(Get(filter, "positiveAttributeFilter"))

AFM_isNegativeAttributeFilter(filter) ==
    NotNot(Get(filter, "negativeAttributeFilter"))

(***************************************************************************)
(* Values handed to the narrowing predicates                               *)
(***************************************************************************)
\* The objects with at most MaxProps own properties, named in names and
\* valued in vals.
FlatObjects(names, vals) ==
    {Obj(p) : p \in UNION {[S -> vals] :
                  S \in {T \in SUBSET names : Cardinality(T) <= MaxProps}}}

\* The arrays with holes: new Array(2), of length 2 without any element,
\* and  a = []; a[3] = 'x' , of length 4 with one element.
SparseArrays == {Arr(2, NoProps), Arr(4, "3" :> Str("x"))}

\* The arrays that carry one named property of names: of length 0 (as
\* Object.assign([], {measure: ...})), with one element, and with holes.
NamedArrays(names) ==
    {Arr(0, k :> v) : k \in names, v \in {SomeObject, Null}}
        \cup {Arr(1, ("0" :> Str("name")) @@ (k :> SomeObject)) : k \in names}
        \cup {Arr(a.n, a.o @@ (k :> SomeObject)) : a \in SparseArrays, k \in names}

MarkerVals ==
    {Undefined, Null, Num(0), Str(""), Bool(FALSE), EmptyObject, SomeObject}

VoMarkers ==
    {"measure", "visualizationAttribute", "measureDefinition",
     "arithmeticMeasure", "popMeasureDefinition", "previousPeriodMeasure",
     "positiveAttributeFilter", "negativeAttributeFilter", "absoluteDateFilter",
     "relativeDateFilter", "measureValueFilter", "localIdentifier",
     "comparison", "range"}

VoValues ==
    Primitives \cup {Arr(0, NoProps), Arr(1, "0" :> Str("name"))}
        \cup FlatObjects(VoMarkers \cup {"other"}, MarkerVals)
        \cup SparseArrays \cup NamedArrays(VoMarkers)

AfmMarkers ==
    {"uri", "measure", "popMeasure",
     "attributeSortItem", "measureSortItem", "measureLocatorItem",
     "positiveAttributeFilter", "negativeAttributeFilter"}

AfmValues ==
    Primitives \cup {Arr(0, NoProps), Arr(1, "0" :> Str("name"))}
        \cup FlatObjects(AfmMarkers \cup {"other"},
                         MarkerVals \cup {Str("/gdc/md/p/obj/1"), Num(1), Bool(TRUE)})

(***************************************************************************)
(* Calls of the narrowing predicates on a value                            *)
(***************************************************************************)
VoGuards ==
    {"VO_isMeasure", "VO_isVisualizationAttribute",
     "VO_isMeasureDefinition", "VO_isArithmeticMeasureDefinition",
     "VO_isPopMeasureDefinition", "VO_isPreviousPeriodMeasureDefinition",
     "VO_isAttributeFilter", "VO_isDateFilter",
     "VO_isPositiveAttributeFilter", "VO_isMeasureValueFilter",
     "VO_isAbsoluteDateFilter", "VO_isRelativeDateFilter",
     "VO_isAttribute", "VO_isLocalIdentifierQualifier",
     "VO_isComparisonCondition", "VO_isRangeCondition"}

AfmGuards ==
    {"AFM_isObjectUriQualifier", "AFM_isSimpleMeasureDefinition",
     "AFM_isPopMeasureDefinition", "AFM_isAttributeSortItem",
     "AFM_isMeasureSortItem", "AFM_isMeasureLocatorItem",
     "AFM_isPositiveAttributeFilter", "AFM_isNegativeAttributeFilter"}

VoApply(g, x) ==
    CASE g = "VO_isMeasure" -> VO_isMeasure(x)
      [] g = "VO_isVisualizationAttribute" -> VO_isVisualizationAttribute(x)
      [] g = "VO_isMeasureDefinition" -> VO_isMeasureDefinition(x)
      [] g = "VO_isArithmeticMeasureDefinition" -> VO_isArithmeticMeasureDefinition(x)
      [] g = "VO_isPopMeasureDefinition" -> VO_isPopMeasureDefinition(x)
      [] g = "VO_isPreviousPeriodMeasureDefinition" -> VO_isPreviousPeriodMeasureDefinition(x)
      [] g = "VO_isAttributeFilter" -> VO_isAttributeFilter(x)
      [] g = "VO_isDateFilter" -> VO_isDateFilter(x)
      [] g = "VO_isPositiveAttributeFilter" -> VO_isPositiveAttributeFilter(x)
      [] g = "VO_isMeasureValueFilter" -> VO_isMeasureValueFilter(x)
      [] g = "VO_isAbsoluteDateFilter" -> VO_isAbsoluteDateFilter(x)
      [] g = "VO_isRelativeDateFilter" -> VO_isRelativeDateFilter(x)
      [] g = "VO_isAttribute" -> VO_isAttribute(x)
      [] g = "VO_isLocalIdentifierQualifier" -> VO_isLocalIdentifierQualifier(x)
      [] g = "VO_isComparisonCondition" -> VO_isComparisonCondition(x)
      [] g = "VO_isRangeCondition" -> VO_isRangeCondition(x)

AfmApply(g, x) ==
    CASE g = "AFM_isObjectUriQualifier" -> AFM_isObjectUriQualifier(x)
      [] g = "AFM_isSimpleMeasureDefinition" -> AFM_isSimpleMeasureDefinition(x)
      [] g = "AFM_isPopMeasureDefinition" -> AFM_isPopMeasureDefinition(x)
      [] g = "AFM_isAttributeSortItem" -> AFM_isAttributeSortItem(x)
      [] g = "AFM_isMeasureSortItem" -> AFM_isMeasureSortItem(x)
      [] g = "AFM_isMeasureLocatorItem" -> AFM_isMeasureLocatorItem(x)
      [] g = "AFM_isPositiveAttributeFilter" -> AFM_isPositiveAttributeFilter(x)
      [] g = "AFM_isNegativeAttributeFilter" -> AFM_isNegativeAttributeFilter(x)

InitVo == arg \in VoValues /\ op = "none" /\ result = NoResult

CallVo(g) ==
    /\ op = "none"
    /\ op' = g
    /\ result' = VoApply(g, arg)
    /\ UNCHANGED arg

NextVo == \E g \in VoGuards : CallVo(g)

SpecVo == InitVo /\ [][NextVo]_vars

InitAfm == arg \in AfmValues /\ op = "none" /\ result = NoResult

CallAfm(g) ==
    /\ op = "none"
    /\ op' = g
    /\ result' = AfmApply(g, arg)
    /\ UNCHANGED arg

NextAfm == \E g \in AfmGuards : CallAfm(g)

SpecAfm == InitAfm /\ [][NextAfm]_vars

(***************************************************************************)
(* Vocabulary of the properties                                            *)
(***************************************************************************)
\* The own property k of x when x is an object that has it, undefined
\* otherwise (never an abrupt completion).
Field(x, k) == IF x.t = "object" /\ k \in DOMAIN x.o THEN x.o[k] ELSE Undefined

GdcOf(x) == Field(x, "gdc")

EventOf(x) == Field(GdcOf(x), "event")

NameOf(x) == Field(EventOf(x), "name")

\* x has the three levels of the envelope: x, x.gdc and x.gdc.event are objects.
IsEnvelope(x) ==
    x.t = "object" /\ GdcOf(x).t = "object" /\ EventOf(x).t = "object"

\* C1: getEventType returns gdc.event.name of an envelope whose name is a
\* string, and the empty string for null, undefined and {}, and when gdc,
\* gdc.event or gdc.event.name is undefined.
C1_EventNameOrEmpty ==
    op = "getEventType" =>
        /\ IsEnvelope(arg) /\ NameOf(arg).t = "string" => result = NameOf(arg)
        /\ arg \in {Null, Undefined, EmptyObject} => result = Str("")
        /\ arg.t = "object" /\ GdcOf(arg) = Undefined => result = Str("")
        /\ GdcOf(arg).t = "object" /\ EventOf(arg) = Undefined => result = Str("")
        /\ IsEnvelope(arg) /\ NameOf(arg) = Undefined => result = Str("")

C1_Witness ==
    /\ op = "getEventType"
    /\ IsEnvelope(arg)
    /\ NameOf(arg) = Str("exportInsightFinished")
    /\ result = Str("exportInsightFinished")

\* C2: getEventType never raises, whatever the input (a gdc or a gdc.event
\* that is null or a primitive included).
C2_NeverRaises == op = "getEventType" => ~IsThrow(result)

\* C3: getEventType returns "" when gdc.event.name is present but is not a
\* string, so that its result is always a string.
C3_NonStringNameGivesEmpty ==
    op = "getEventType" /\ IsEnvelope(arg)
        /\ NameOf(arg).t \notin {"string", "undefined"}
        => result = Str("")

\* The literal each command/event guard is said to compare the event name with.
GuardLiteral ==
    [AD_isDrillableItemsCommandData |-> "drillableItems",
     AD_isOpenInsightCommandData    |-> "openInsight",
     AD_isClearCommandData          |-> "clear",
     AD_isSaveInsightCommandData    |-> "saveInsight",
     AD_isSaveAsInsightCommandData  |-> "saveAsInsight",
     AD_isExportInsightCommandData  |-> "exportInsight",
     AD_isUndoCommandData           |-> "undo",
     AD_isRedoCommandData           |-> "redo",
     AD_isNewInsightInitializedData |-> "newInsightInitialized",
     AD_isInsightOpenedData         |-> "insightOpened",
     AD_isInsightSavedData          |-> "visualizationSaved",
     AD_isExportFinishedData        |-> "exportInsightFinished",
     AD_isUndoFinishedData          |-> "undoFinished",
     AD_isRedoFinishedData          |-> "redoFinished",
     KD_isSaveDashboardCommandData  |-> "saveDashboard",
     KD_isCancelEditCommandData     |-> "cancelEdit",
     KD_isSwitchToEditCommandData   |-> "switchToEdit",
     KD_isDrillableItemsCommandData |-> "drillableItems",
     KD_isSetSizeCommandData        |-> "setSize",
     KD_isAddWidgetCommandData      |-> "addWidget",
     KD_isAddFilterCommandData      |-> "addFilter",
     KD_isExportToPdfCommandData    |-> "exportToPdf",
     isCommandFailedData            |-> "appCommandFailed",
     AD_isAdCommandFailedData       |-> "appCommandFailed"]

EventGuards == AdGuards \cup KdGuards \cup {"isCommandFailedData"}

\* C4: every command/event guard is exactly the comparison of the extracted
\* event name with its literal: it raises when the extraction raises, and
\* otherwise returns true when the extracted name is the literal and false
\* when it is anything else.
C4_GuardIsNameComparison ==
    op \in DOMAIN GuardLiteral =>
        IF IsThrow(getEventType(arg))
        THEN IsThrow(result)
        ELSE result = Bool(getEventType(arg) = Str(GuardLiteral[op]))

C4_Witness ==
    /\ op = "AD_isInsightSavedData"
    /\ NameOf(arg) = Str("visualizationSaved")
    /\ result = Bool(TRUE)

\* x is an envelope whose event name is 'saveInsight'.
IsSaveInsightEnvelope(x) == IsEnvelope(x) /\ NameOf(x) = Str("saveInsight")

\* C5: on an envelope named 'saveInsight', whatever its product, data and
\* contextId, getEventType returns 'saveInsight', isSaveInsightCommandData
\* returns true and every other command/event guard returns false.
C5_SaveInsightRoundTrip ==
    IsSaveInsightEnvelope(arg) =>
        /\ op = "getEventType" => result = Str("saveInsight")
        /\ op = "AD_isSaveInsightCommandData" => result = Bool(TRUE)
        /\ op \in EventGuards \ {"AD_isSaveInsightCommandData"}
               => result = Bool(FALSE)

C5_Witness ==
    /\ IsSaveInsightEnvelope(arg)
    /\ Field(GdcOf(arg), "product") = Str("analyticalDesigner")
    /\ Field(EventOf(arg), "data") = SomeObject
    /\ op = "KD_isSaveDashboardCommandData"
    /\ result = Bool(FALSE)

\* C6: no input is accepted by a guard of the analytical designer and by a
\* guard of the dashboards: when a designer guard has returned true, every
\* dashboard guard returns false on the same input.
C6_ProductsDisjoint ==
    op \in AdGuards /\ result = Bool(TRUE) =>
        \A k \in KdGuards : KdApply(k, arg) # Bool(TRUE)

\* C7: a guard of the analytical designer returns true only on an envelope
\* whose gdc.product is 'analyticalDesigner'.
C7_AdGuardImpliesAdProduct ==
    op \in AdGuards /\ result = Bool(TRUE) =>
        Field(GdcOf(arg), "product") = Str("analyticalDesigner")

\* The marker field each single-marker VisualizationObject predicate tests.
VoMarkerOf ==
    [VO_isMeasure                         |-> "measure",
     VO_isVisualizationAttribute          |-> "visualizationAttribute",
     VO_isAttribute                       |-> "visualizationAttribute",
     VO_isMeasureDefinition               |-> "measureDefinition",
     VO_isArithmeticMeasureDefinition     |-> "arithmeticMeasure",
     VO_isPopMeasureDefinition            |-> "popMeasureDefinition",
     VO_isPreviousPeriodMeasureDefinition |-> "previousPeriodMeasure",
     VO_isPositiveAttributeFilter         |-> "positiveAttributeFilter",
     VO_isMeasureValueFilter              |-> "measureValueFilter",
     VO_isAbsoluteDateFilter              |-> "absoluteDateFilter",
     VO_isRelativeDateFilter              |-> "relativeDateFilter",
     VO_isLocalIdentifierQualifier        |-> "localIdentifier",
     VO_isComparisonCondition             |-> "comparison",
     VO_isRangeCondition                  |-> "range"]

\* x is not empty: an object with at least one own property, an array of
\* length 1 or more, a string with at least one character.
NonEmpty(x) ==
    \/ x.t = "object" /\ DOMAIN x.o # {}
    \/ x.t = "array" /\ x.n > 0
    \/ x.t = "string" /\ x.s # ""

\* The own property k of x when x is an object or an array that has it,
\* undefined otherwise.
Own(x, k) ==
    IF x.t \in {"object", "array"} /\ k \in DOMAIN x.o THEN x.o[k] ELSE Undefined

\* C8: a single-marker VisualizationObject predicate returns true exactly
\* when its input is non-empty and the marker field is not undefined: true
\* for a marker that is null, 0, '' or false, false for an input that has
\* other properties only (and for an array without elements, which is empty).
C8_VoMarkerPresence ==
    op \in DOMAIN VoMarkerOf =>
        result = Bool(NonEmpty(arg) /\ Own(arg, VoMarkerOf[op]) # Undefined)

C8_Witness ==
    /\ op = "VO_isMeasureValueFilter"
    /\ Field(arg, "measureValueFilter") \in {Null, Num(0), Str(""), Bool(FALSE)}
    /\ result = Bool(TRUE)

AfmMarkerOf ==
    [AFM_isObjectUriQualifier      |-> "uri",
     AFM_isSimpleMeasureDefinition |-> "measure",
     AFM_isPopMeasureDefinition    |-> "popMeasure",
     AFM_isAttributeSortItem       |-> "attributeSortItem",
     AFM_isMeasureSortItem         |-> "measureSortItem",
     AFM_isMeasureLocatorItem      |-> "measureLocatorItem",
     AFM_isPositiveAttributeFilter |-> "positiveAttributeFilter",
     AFM_isNegativeAttributeFilter |-> "negativeAttributeFilter"]

\* C9: on an object, an AFM predicate returns true exactly when the object is
\* non-empty and the marker field is not undefined, without coercion of the
\* marker: {uri: ''} and a marker that is null, 0 or false are accepted.
C9_AfmMarkerPresence ==
    op \in DOMAIN AfmMarkerOf /\ arg.t = "object" =>
        result = Bool(NonEmpty(arg) /\ Field(arg, AfmMarkerOf[op]) # Undefined)

\* x carries none of the marker fields of the VisualizationObject predicates.
NoVoMarker(x) == x.t = "object" /\ DOMAIN x.o \cap VoMarkers = {}

\* C10: every VisualizationObject predicate returns false, and does not
\* raise, on null, undefined, {}, a number, a boolean, a string and an object
\* without any marker field.
C10_VoRejectsNonVariants ==
    /\ op \in VoGuards
    /\ \/ arg.t \in {"null", "undefined", "number", "boolean", "string"}
       \/ NoVoMarker(arg)
    => result = Bool(FALSE)

C10_Witness ==
    /\ op = "VO_isDateFilter"
    /\ arg \in {Null, Undefined}
    /\ result = Bool(FALSE)

\* C11: every AFM predicate returns false, and does not raise, on null,
\* undefined, {} and the values that are not objects.
C11_AfmRejectsNonObjects ==
    op \in AfmGuards /\ arg.t # "array" /\ (arg.t = "object" => arg = EmptyObject)
        => result = Bool(FALSE)

(***************************************************************************)
(* Calls of the insight-reference guards of EmbeddedKpiDashboard           *)
(***************************************************************************)
InsightValues ==
    Primitives \cup {Arr(0, NoProps), Arr(1, "0" :> Str("name"))}
        \cup FlatObjects({"identifier", "uri", "other"},
                         MarkerVals \cup {Str("/gdc/md/p/obj/1"), Str("insight.id")})

InsightGuards == {"KD_isIdentifierInsight", "KD_isUriInsight"}

InsightApply(g, x) ==
    CASE g = "KD_isIdentifierInsight" -> KD_isIdentifierInsight(x)
      [] g = "KD_isUriInsight" -> KD_isUriInsight(x)

InitInsight == arg \in InsightValues /\ op = "none" /\ result = NoResult

CallInsight(g) ==
    /\ op = "none"
    /\ op' = g
    /\ result' = InsightApply(g, arg)
    /\ UNCHANGED arg

NextInsight == \E g \in InsightGuards : CallInsight(g)

SpecInsight == InitInsight /\ [][NextInsight]_vars

InsightMarkerOf ==
    [KD_isIdentifierInsight |-> "identifier", KD_isUriInsight |-> "uri"]

\* C12: isIdentifierInsight and isUriInsight never raise and return a
\* boolean: true for an object that carries the identifier (respectively
\* uri) field, false for null, undefined, {} and every value without it.
C12_InsightGuardsReturnBoolean ==
    op \in InsightGuards =>
        result = Bool(arg.t = "object" /\ InsightMarkerOf[op] \in DOMAIN arg.o
                          /\ Field(arg, InsightMarkerOf[op]) # Undefined)

\* x is no envelope at all: null, undefined, a primitive, an array, or an
\* object (possibly {}) without a gdc property.
NoGdc(x) == x.t # "object" \/ "gdc" \notin DOMAIN x.o

\* C13: on null, undefined, {}, a number, a boolean, a string, an array and
\* an object without gdc, getEventType returns "" and every command/event
\* guard returns false; none raises.
C13_NonEnvelopesRejected ==
    NoGdc(arg) =>
        /\ op = "getEventType" => result = Str("")
        /\ op \in EventGuards => result = Bool(FALSE)

C13_Witness ==
    /\ arg \in {Null, Undefined}
    /\ op = "AD_isDrillableItemsCommandData"
    /\ result = Bool(FALSE)

\* The fields of x, among names, that are not undefined.
DefinedAmong(x, names) == {k \in names : Field(x, k) # Undefined}

\* The same on every value: the named properties of an array are read too.
DefinedIn(x, names) == {k \in names : Own(x, k) # Undefined}

MeasureDefinitionGuards ==
    {"VO_isMeasureDefinition", "VO_isArithmeticMeasureDefinition",
     "VO_isPopMeasureDefinition", "VO_isPreviousPeriodMeasureDefinition"}

MeasureDefinitionMarkers == {VoMarkerOf[g] : g \in MeasureDefinitionGuards}

\* C14, as stated: on every value in which exactly one of measureDefinition,
\* arithmeticMeasure, popMeasureDefinition and previousPeriodMeasure is
\* defined, the predicate of that marker returns true and the predicates of
\* the three other markers return false.
C14_ExclusiveOnEveryValue ==
    /\ op \in MeasureDefinitionGuards
    /\ Cardinality(DefinedIn(arg, MeasureDefinitionMarkers)) = 1
    => result = Bool(VoMarkerOf[op] \in DefinedIn(arg, MeasureDefinitionMarkers))

\* C14, amended: on every non-empty value in which exactly one of
\* measureDefinition, arithmeticMeasure, popMeasureDefinition and
\* previousPeriodMeasure is defined, the predicate of that marker returns
\* true and the predicates of the three other markers return false; on an
\* empty value (an array of length 0 that carries the marker as a named
\* property) all four return false.
C14_MeasureDefinitionsExclusive ==
    /\ op \in MeasureDefinitionGuards
    /\ Cardinality(DefinedIn(arg, MeasureDefinitionMarkers)) = 1
    => result = Bool(/\ NonEmpty(arg)
                     /\ VoMarkerOf[op] \in DefinedIn(arg, MeasureDefinitionMarkers))

C14_Witness ==
    /\ op = "VO_isPopMeasureDefinition"
    /\ DefinedAmong(arg, MeasureDefinitionMarkers) = {"popMeasureDefinition"}
    /\ "arithmeticMeasure" \in DOMAIN arg.o
    /\ result = Bool(TRUE)

(***************************************************************************)
(* Calls of the AFM and the VisualizationObject predicates on the values   *)
(* of the measure and filter unions that the two models share              *)
(***************************************************************************)
\* { localIdentifier: 'm1', definition: { measure: { item: { identifier } } } }
MeasureBody ==
    Obj(("localIdentifier" :> Str("m1")) @@
        ("definition" :> Obj("measure" :> Obj("item" :>
             Obj("identifier" :> Str("attr.revenue"))))))

SharedMarkers ==
    {"measure", "popMeasure", "arithmeticMeasure",
     "popMeasureDefinition", "previousPeriodMeasure",
     "positiveAttributeFilter", "negativeAttributeFilter",
     "absoluteDateFilter", "relativeDateFilter", "measureValueFilter"}

SharedValues ==
    Primitives \cup {Arr(0, NoProps), Arr(1, "0" :> Str("name"))}
        \cup FlatObjects(SharedMarkers \cup {"other"},
                         MarkerVals \cup {MeasureBody})
        \cup SparseArrays \cup NamedArrays(SharedMarkers)

InitShared == arg \in SharedValues /\ op = "none" /\ result = NoResult

NextShared ==
    \/ \E g \in AfmGuards : CallAfm(g)
    \/ \E g \in VoGuards : CallVo(g)

SpecShared == InitShared /\ [][NextShared]_vars

\* x.measure is a non-empty object and x has none of popMeasure,
\* arithmeticMeasure, popMeasureDefinition and previousPeriodMeasure.
IsSimpleMeasureValue(x) ==
    /\ Field(x, "measure").t = "object"
    /\ DOMAIN Field(x, "measure").o # {}
    /\ DefinedAmong(x, {"popMeasure", "arithmeticMeasure",
                        "popMeasureDefinition", "previousPeriodMeasure"}) = {}

\* C15: on a value whose measure field is a non-empty object and that has
\* no field of a derived measure, AFM.isSimpleMeasureDefinition returns
\* true, and AFM.isPopMeasureDefinition and the VisualizationObject
\* predicates of the pop, previous-period and arithmetic definitions return
\* false.
C15_SimpleMeasureScenario ==
    IsSimpleMeasureValue(arg) =>
        /\ op = "AFM_isSimpleMeasureDefinition" => result = Bool(TRUE)
        /\ op \in {"AFM_isPopMeasureDefinition", "VO_isPopMeasureDefinition",
                   "VO_isPreviousPeriodMeasureDefinition",
                   "VO_isArithmeticMeasureDefinition"} => result = Bool(FALSE)

C15_Witness ==
    /\ arg = Obj("measure" :> MeasureBody)
    /\ op = "AFM_isPopMeasureDefinition"
    /\ result = Bool(FALSE)

FilterMarkers ==
    {"positiveAttributeFilter", "negativeAttributeFilter",
     "absoluteDateFilter", "relativeDateFilter", "measureValueFilter"}

\* The only filter marker defined in x is positiveAttributeFilter, an object.
IsPositiveFilterValue(x) ==
    /\ DefinedIn(x, FilterMarkers) = {"positiveAttributeFilter"}
    /\ Own(x, "positiveAttributeFilter").t = "object"

\* C16, as stated: on every filter value whose only defined marker is
\* positiveAttributeFilter, holding an object, the positive-filter
\* predicates of both models and isAttributeFilter return true, and
\* AFM.isNegativeAttributeFilter, isDateFilter, isAbsoluteDateFilter,
\* isRelativeDateFilter and isMeasureValueFilter return false.
C16_ScenarioOnEveryValue ==
    IsPositiveFilterValue(arg) =>
        /\ op \in {"AFM_isPositiveAttributeFilter", "VO_isPositiveAttributeFilter",
                   "VO_isAttributeFilter"} => result = Bool(TRUE)
        /\ op \in {"AFM_isNegativeAttributeFilter", "VO_isDateFilter",
                   "VO_isAbsoluteDateFilter", "VO_isRelativeDateFilter",
                   "VO_isMeasureValueFilter"} => result = Bool(FALSE)

\* C16, amended: on every filter value whose only defined marker is
\* positiveAttributeFilter, holding an object, AFM.isPositiveAttributeFilter
\* returns true, VisualizationObject.isPositiveAttributeFilter and
\* isAttributeFilter return true when the value is non-empty and false when
\* it is empty (an array of length 0 that carries the marker), and
\* AFM.isNegativeAttributeFilter, isDateFilter, isAbsoluteDateFilter,
\* isRelativeDateFilter and isMeasureValueFilter return false.
C16_PositiveFilterScenario ==
    IsPositiveFilterValue(arg) =>
        /\ op = "AFM_isPositiveAttributeFilter" => result = Bool(TRUE)
        /\ op \in {"VO_isPositiveAttributeFilter", "VO_isAttributeFilter"}
               => result = Bool(NonEmpty(arg))
        /\ op \in {"AFM_isNegativeAttributeFilter", "VO_isDateFilter",
                   "VO_isAbsoluteDateFilter", "VO_isRelativeDateFilter",
                   "VO_isMeasureValueFilter"} => result = Bool(FALSE)

C16_Witness ==
    /\ IsPositiveFilterValue(arg)
    /\ "negativeAttributeFilter" \in DOMAIN arg.o
    /\ op = "VO_isAttributeFilter"
    /\ result = Bool(TRUE)

ConditionMarkers == {"comparison", "range"}

\* C17, as stated: on every condition in which exactly one of comparison
\* and range is defined, isComparisonCondition returns true exactly when it
\* is comparison and isRangeCondition exactly when it is range: the two
\* never agree.
C17_ExclusiveOnEveryValue ==
    /\ op \in {"VO_isComparisonCondition", "VO_isRangeCondition"}
    /\ Cardinality(DefinedIn(arg, ConditionMarkers)) = 1
    => result = Bool(VoMarkerOf[op] \in DefinedIn(arg, ConditionMarkers))

\* C17, amended: on every non-empty condition in which exactly one of
\* comparison and range is defined, isComparisonCondition returns true
\* exactly when it is comparison and isRangeCondition exactly when it is
\* range, so that the two never agree; on an empty one (an array of length 0
\* that carries the field) both return false.
C17_ConditionsExclusive ==
    /\ op \in {"VO_isComparisonCondition", "VO_isRangeCondition"}
    /\ Cardinality(DefinedIn(arg, ConditionMarkers)) = 1
    => result = Bool(/\ NonEmpty(arg)
                     /\ VoMarkerOf[op] \in DefinedIn(arg, ConditionMarkers))

C17_Witness ==
    /\ op = "VO_isRangeCondition"
    /\ DefinedAmong(arg, ConditionMarkers) = {"comparison"}
    /\ result = Bool(FALSE)

\* C19: the wire vocabulary is exact: GdcErrorType holds exactly the four
\* pairwise distinct codes 'error:invalidCommand', 'error:invalidArgument',
\* 'error:invalidState' and 'error:runtime'; the save and drillable-items
\* commands of the designer are 'saveInsight' and 'drillableItems', its
\* export-finished event 'exportInsightFinished', the dashboard-saved event
\* 'dashboardSaved', and the products 'analyticalDesigner' and 'dashboards';
\* a message that carries one of these command or event values on the wire
\* is recognised by the guard of that command or event.
C19_WireVocabulary ==
    /\ DOMAIN GdcErrorType =
           {"InvalidCommand", "InvalidArgument", "InvalidState", "RuntimeError"}
    /\ Range(GdcErrorType) =
           {"error:invalidCommand", "error:invalidArgument",
            "error:invalidState", "error:runtime"}
    /\ Cardinality(Range(GdcErrorType)) = Cardinality(DOMAIN GdcErrorType)
    /\ GdcAdCommandType.Save = "saveInsight"
    /\ GdcAdCommandType.DrillableItems = "drillableItems"
    /\ GdcAdEventType.ExportFinished = "exportInsightFinished"
    /\ GdcKdEventType.DashboardSaved = "dashboardSaved"
    /\ Range(GdcProductName) = {"analyticalDesigner", "dashboards"}
    /\ \A g \in {"AD_isSaveInsightCommandData", "AD_isDrillableItemsCommandData",
                  "AD_isExportFinishedData"} :
           op = g /\ IsEnvelope(arg) /\ NameOf(arg) = Str(GuardLiteral[g])
               => result = Bool(TRUE)

\* A message of the designer that carries the wire value of its save command
\* is recognised by the guard of that command.
C19_Witness ==
    /\ op = "AD_isSaveInsightCommandData"
    /\ NameOf(arg) = Str("saveInsight")
    /\ Field(GdcOf(arg), "product") = Str("analyticalDesigner")
    /\ result = Bool(TRUE)

\* The predicate of the filter kind that owns each filter marker.
FilterKindOf ==
    [positiveAttributeFilter |-> "VO_isAttributeFilter",
     negativeAttributeFilter |-> "VO_isAttributeFilter",
     absoluteDateFilter      |-> "VO_isDateFilter",
     relativeDateFilter      |-> "VO_isDateFilter",
     measureValueFilter      |-> "VO_isMeasureValueFilter"]

\* C20, as stated: on every filter value in which exactly one of the five
\* filter markers is defined, the predicate of the kind that owns the marker
\* returns true and the predicates of the two other kinds return false.
C20_PartitionOnEveryValue ==
    /\ op \in Range(FilterKindOf)
    /\ Cardinality(DefinedIn(arg, FilterMarkers)) = 1
    => result = Bool(\E m \in DefinedIn(arg, FilterMarkers) : FilterKindOf[m] = op)

\* C20, amended: on every non-empty filter value in which exactly one of the
\* five filter markers is defined, the predicate of the kind that owns the
\* marker returns true and the predicates of the two other kinds return
\* false; on an empty one (an array of length 0 that carries the marker)
\* all three return false.
C20_FilterKindsPartition ==
    /\ op \in Range(FilterKindOf)
    /\ Cardinality(DefinedIn(arg, FilterMarkers)) = 1
    => result = Bool(/\ NonEmpty(arg)
                     /\ \E m \in DefinedIn(arg, FilterMarkers) : FilterKindOf[m] = op)

C20_Witness ==
    /\ op = "VO_isDateFilter"
    /\ DefinedAmong(arg, FilterMarkers) = {"relativeDateFilter"}
    /\ result = Bool(TRUE)

(***************************************************************************)
(* Several sibling predicates called one after the other on one value, as  *)
(* a caller narrowing a union does.  Here op is the sequence of the        *)
(* predicates called so far and result the sequence of what they returned. *)
(***************************************************************************)
\* The sibling predicates of the bucket items, of the measure definitions
\* and of the measure-value-filter conditions, two of each union.
SiblingGuards ==
    {"VO_isMeasure", "VO_isVisualizationAttribute",
     "VO_isMeasureDefinition", "VO_isArithmeticMeasureDefinition",
     "VO_isComparisonCondition", "VO_isRangeCondition"}

SiblingOf ==
    [VO_isMeasure                     |-> "VO_isVisualizationAttribute",
     VO_isVisualizationAttribute      |-> "VO_isMeasure",
     VO_isMeasureDefinition           |-> "VO_isArithmeticMeasureDefinition",
     VO_isArithmeticMeasureDefinition |-> "VO_isMeasureDefinition",
     VO_isComparisonCondition         |-> "VO_isRangeCondition",
     VO_isRangeCondition              |-> "VO_isComparisonCondition"]

SiblingMarkers ==
    {"measure", "visualizationAttribute", "measureDefinition",
     "arithmeticMeasure", "comparison", "range"}

SiblingValues ==
    Primitives \cup {Arr(0, NoProps), Arr(1, "0" :> Str("name"))}
        \cup FlatObjects(SiblingMarkers, MarkerVals)
        \cup SparseArrays \cup NamedArrays(SiblingMarkers)

InitSiblings == arg \in SiblingValues /\ op = <<>> /\ result = <<>>

CallSibling(g) ==
    /\ Len(op) < MaxCalls
    /\ op' = Append(op, g)
    /\ result' = Append(result, VoApply(g, arg))
    /\ UNCHANGED arg

NextSiblings == \E g \in SiblingGuards : CallSibling(g)

SpecSiblings == InitSiblings /\ [][NextSiblings]_vars

\* The markers of p and of its sibling are both defined in x.
BothSiblingsDefined(x, p) ==
    {VoMarkerOf[p], VoMarkerOf[SiblingOf[p]]} \subseteq DefinedAmong(x, SiblingMarkers)

C22_CompositeIsDisjunction ==
    /\ op = "VO_isDateFilter" =>
           result = Bool(\/ VO_isAbsoluteDateFilter(arg) = Bool(TRUE)
                         \/ VO_isRelativeDateFilter(arg) = Bool(TRUE))
    /\ op = "VO_isAttributeFilter" =>
           result = Bool(\/ VO_isPositiveAttributeFilter(arg) = Bool(TRUE)
                         \/ /\ NonEmpty(arg)
                            /\ Own(arg, "negativeAttributeFilter") # Undefined)

\* The date composite accepted a filter through its second variant only, on
\* a marker that is defined but null.
C22_Witness ==
    /\ op = "VO_isDateFilter"
    /\ Field(arg, "absoluteDateFilter") = Undefined
    /\ Field(arg, "relativeDateFilter") = Null
    /\ VO_isAbsoluteDateFilter(arg) = Bool(FALSE)
    /\ result = Bool(TRUE)

\* x is truthy and its gdc is null, or its gdc is defined and the event of
\* that gdc is null.
HasNullLevel(x) ==
    /\ ToBoolean(x)
    /\ \/ GdcOf(x) = Null
       \/ GdcOf(x) # Undefined /\ EventOf(x) = Null

\* x is falsy, or its gdc, gdc.event or gdc.event.name is undefined.
HasUndefinedLevel(x) ==
    \/ ~ToBoolean(x)
    \/ GdcOf(x) = Undefined
    \/ EventOf(x) = Undefined
    \/ NameOf(x) = Undefined

\* C23: the defaults of getEventType apply to undefined only: it raises
\* exactly when the input is truthy and its gdc is null, or its gdc is
\* defined and gdc.event is null; on every other input it returns "" when
\* the input is falsy or gdc, gdc.event or gdc.event.name is undefined, and
\* gdc.event.name unchanged otherwise, whatever its type.
C23_DefaultsForUndefinedOnly ==
    op = "getEventType" =>
        IF HasNullLevel(arg) THEN IsThrow(result)
        ELSE IF HasUndefinedLevel(arg) THEN result = Str("")
        ELSE result = NameOf(arg)

\* A name that is no string was returned as it is.
C23_Witness ==
    /\ op = "getEventType"
    /\ IsEnvelope(arg)
    /\ NameOf(arg) \in {Null, Num(0), SomeObject}
    /\ result = NameOf(arg)

(***************************************************************************)
(* embedding/ad.ts, later revision : the members it adds to the two enums  *)
(* of EmbeddedAnalyticalDesigner and the guards it adds                    *)
(***************************************************************************)
GdcAdCommandTypeLater ==
    [DrillableItems |-> "drillableItems",
     OpenInsight |-> "openInsight",
     Save |-> "saveInsight",
     SaveAs |-> "saveAsInsight",
     Export |-> "exportInsight",
     Clear |-> "clear",
     Undo |-> "undo",
     Redo |-> "redo",
     SetFilterContext |-> "setFilterContext",
     RemoveFilterContext |-> "removeFilterContext"]

GdcAdEventTypeLater ==
    [ListeningForDrillableItems |-> "listeningForDrillableItems",
     NewInsightInitialized |-> "newInsightInitialized",
     InsightOpened |-> "insightOpened",
     ClearFinished |-> "clearFinished",
     InsightSaved |-> "visualizationSaved",
     UndoFinished |-> "undoFinished",
     RedoFinished |-> "redoFinished",
     ExportFinished |-> "exportInsightFinished",
     Drill |-> "drill",
     FilterContextChanged |-> "filterContextChanged",
     SetFilterContextFinished |-> "setFilterContextFinished",
     RemoveFilterContextFinished |-> "removeFilterContextFinished"]

AD_isSetFilterContextCommandData(obj) ==
    StrictEquals(getEventType(obj), Str(GdcAdCommandTypeLater.SetFilterContext))

AD_isRemoveFilterContextCommandData(obj) ==
    StrictEquals(getEventType(obj), Str(GdcAdCommandTypeLater.RemoveFilterContext))

AD_isClearFinishedData(obj) ==
    StrictEquals(getEventType(obj), Str(GdcAdEventTypeLater.ClearFinished))

LaterAdGuards ==
    {"AD_isSetFilterContextCommandData", "AD_isRemoveFilterContextCommandData",
     "AD_isClearFinishedData"}

LaterAdApply(g, x) ==
    CASE g = "AD_isSetFilterContextCommandData" -> AD_isSetFilterContextCommandData(x)
      [] g = "AD_isRemoveFilterContextCommandData" -> AD_isRemoveFilterContextCommandData(x)
      [] g = "AD_isClearFinishedData" -> AD_isClearFinishedData(x)

\* The messages of the designer that carry a literal of the later revision.
LaterMessages ==
    {Obj("gdc" :> Obj(("product" :> Str(GdcProductName.ANALYTICAL_DESIGNER)) @@
                      ("event" :> Obj("name" :> Str(n))))) :
        n \in Range(GdcAdCommandTypeLater) \cup Range(GdcAdEventTypeLater)}

(***************************************************************************)
(* Calls of the guards of both product families, the guards of the later   *)
(* revision included                                                       *)
(***************************************************************************)
InitFamilies ==
    arg \in Messages \cup LaterMessages /\ op = "none" /\ result = NoResult

CallAdLater(g) ==
    /\ op = "none"
    /\ op' = g
    /\ result' = LaterAdApply(g, arg)
    /\ UNCHANGED arg

NextFamilies ==
    \/ CallGetEventType
    \/ CallIsCommandFailedData
    \/ \E g \in AdGuards : CallAd(g)
    \/ \E g \in KdGuards : CallKd(g)
    \/ \E g \in LaterAdGuards : CallAdLater(g)

SpecFamilies == InitFamilies /\ [][NextFamilies]_vars

\* The guards of the analytical designer and those of the dashboards, each
\* family with its guard of the failed command.
AdFamily == AdGuards \cup LaterAdGuards

KdFamily == KdGuards \cup {"isCommandFailedData"}

\* What guard g returns on x.
FamilyApply(g, x) ==
    IF g \in AdGuards THEN AdApply(g, x)
    ELSE IF g \in LaterAdGuards THEN LaterAdApply(g, x)
    ELSE IF g \in KdGuards THEN KdApply(g, x)
    ELSE isCommandFailedData(x)

\* The literals of the two enums and 'appCommandFailed' are pairwise distinct
\* and none is the empty string.
DistinctLiterals(commands, events) ==
    LET all == Range(commands) \cup Range(events) \cup Range(GdcEventType)
    IN  /\ Cardinality(all) =
               Cardinality(DOMAIN commands) + Cardinality(DOMAIN events)
                   + Cardinality(DOMAIN GdcEventType)
        /\ "" \notin all

\* C24: within one product family the guards are mutually exclusive: the
\* literals of the command enum, of the event enum and 'appCommandFailed'
\* are pairwise distinct and none is empty, for the designer (in both
\* revisions) and for the dashboards; when a guard of a family has returned
\* true, every other guard of that family returns false on the same input,
\* and the event name of that input is not "".
C24_FamilyGuardsExclusive ==
    /\ DistinctLiterals(GdcAdCommandType, GdcAdEventType)
    /\ DistinctLiterals(GdcAdCommandTypeLater, GdcAdEventTypeLater)
    /\ DistinctLiterals(GdcKdCommandType, GdcKdEventType)
    /\ \A family \in {AdFamily, KdFamily} :
           op \in family /\ result = Bool(TRUE) =>
               /\ \A h \in family \ {op} : FamilyApply(h, arg) = Bool(FALSE)
               /\ getEventType(arg) # Str("")
    /\ op \in AdFamily \cup KdFamily /\ getEventType(arg) = Str("")
           => result = Bool(FALSE)

\* A guard of the later revision accepted its message; the undo and redo
\* guards, whose literals are neighbours, did not.
C24_Witness ==
    /\ op = "AD_isClearFinishedData"
    /\ NameOf(arg) = Str("clearFinished")
    /\ result = Bool(TRUE)
    /\ AD_isClearCommandData(arg) = Bool(FALSE)

\* The envelopes among the messages, by their gdc.event.name (undefined when
\* the event has no name).
EnvelopesNamed ==
    [n \in NameVals |-> {y \in Messages : IsEnvelope(y) /\ NameOf(y) = n}]

\* C25: the command/event guards depend on the event name only: a guard
\* that was called on an envelope returns the same on every other envelope
\* with the same gdc.event.name, whatever the product, the data, the
\* contextId and the extra fields of the two.
C25_GuardsDependOnNameOnly ==
    op \in EventGuards /\ IsEnvelope(arg) =>
        \A y \in EnvelopesNamed[NameOf(arg)] : FamilyApply(op, y) = result

\* The undo guard accepted an envelope of the other product, with data, as it
\* accepts the bare envelope of the same name.
C25_Witness ==
    /\ op = "AD_isUndoCommandData"
    /\ NameOf(arg) = Str("undo")
    /\ Field(GdcOf(arg), "product") = Str("dashboards")
    /\ Field(EventOf(arg), "data") = SomeObject
    /\ "extra" \in DOMAIN arg.o
    /\ result = Bool(TRUE)
    /\ AD_isUndoCommandData(Obj("gdc" :> Obj("event" :> Obj("name" :> Str("undo")))))
           = Bool(TRUE)

PositiveFilterGuards ==
    {"AFM_isPositiveAttributeFilter", "VO_isPositiveAttributeFilter"}

\* What the positive-filter guard of the other model returns on x.
OtherPositiveFilterGuard(g, x) ==
    IF g = "AFM_isPositiveAttributeFilter"
    THEN VO_isPositiveAttributeFilter(x)
    ELSE AFM_isPositiveAttributeFilter(x)

BucketItemMarkers == {"measure", "visualizationAttribute"}

\* C27, as stated: isAttribute and isVisualizationAttribute are the same
\* predicate: on every value each returns what the other returns; and on
\* every bucket item in which exactly one of measure and
\* visualizationAttribute is defined, isMeasure returns true exactly when it
\* is measure and isAttribute exactly when it is visualizationAttribute, so
\* that the two are opposite.
C27_OppositeOnEveryValue ==
    /\ op = "VO_isAttribute" => result = VO_isVisualizationAttribute(arg)
    /\ op = "VO_isVisualizationAttribute" => result = VO_isAttribute(arg)
    /\ /\ op \in {"VO_isMeasure", "VO_isAttribute"}
       /\ Cardinality(DefinedIn(arg, BucketItemMarkers)) = 1
       => result = Bool(VoMarkerOf[op] \in DefinedIn(arg, BucketItemMarkers))

\* C27, amended: isAttribute and isVisualizationAttribute are the same
\* predicate: on every value each returns what the other returns; on every
\* non-empty bucket item in which exactly one of measure and
\* visualizationAttribute is defined, isMeasure returns true exactly when it
\* is measure and isAttribute exactly when it is visualizationAttribute, so
\* that the two are opposite; on an empty one (an array of length 0 that
\* carries the marker) both return false.
C27_AttributeGuardsCoincide ==
    /\ op = "VO_isAttribute" => result = VO_isVisualizationAttribute(arg)
    /\ op = "VO_isVisualizationAttribute" => result = VO_isAttribute(arg)
    /\ /\ op \in {"VO_isMeasure", "VO_isAttribute"}
       /\ Cardinality(DefinedIn(arg, BucketItemMarkers)) = 1
       => result = Bool(/\ NonEmpty(arg)
                        /\ VoMarkerOf[op] \in DefinedIn(arg, BucketItemMarkers))

\* isAttribute accepted a bucket item that is an attribute only, which
\* isVisualizationAttribute accepts and isMeasure rejects.
C27_Witness ==
    /\ op = "VO_isAttribute"
    /\ DefinedAmong(arg, BucketItemMarkers) = {"visualizationAttribute"}
    /\ result = Bool(TRUE)
    /\ VO_isVisualizationAttribute(arg) = Bool(TRUE)
    /\ VO_isMeasure(arg) = Bool(FALSE)

====
